---- MODULE Spec2Model ----
(***************************************************************************)
(* Model of the SCRI trial agent: the TrialAgent orchestrator              *)
(* (services/agent.ts: chat, resetConversation, restoreConversationState)  *)
(* and the background service worker that owns one agent and persists its  *)
(* continuation token (background/index.ts).                               *)
(*                                                                         *)
(* Every JavaScript task is one step.  A handler runs synchronously up to  *)
(* the next await of an external operation (model endpoint, data source,   *)
(* chrome.storage) and is resumed by the step that completes it; awaits    *)
(* that only cross a microtask boundary are part of the same step.  A      *)
(* storage operation takes effect in the step that completes it.           *)
(*                                                                         *)
(* Spec        the TrialAgent API driven by one sequential caller, as the  *)
(*             CLI and the test sessions drive it.                         *)
(* SpecWorker  the background worker handling concurrent messages.         *)
(* SpecTools   executeTool called directly on one agent, as the tests and  *)
(*             the worker's SEARCH_TRIALS / GET_TRIAL handlers call it,    *)
(*             with the data sources' answers.                             *)
(* SpecTurn    consecutive chat() turns of one sequential caller, with the *)
(*             message items of the responses and the trial lists of the   *)
(*             tool results.                                               *)
(* SpecBatch   a chat() turn whose search_trials and get_study_details     *)
(*             calls are executed by executeTool on the agent's cache.     *)
(* SpecReset   executeTool calls on the cache interleaved with             *)
(*             resetConversation() and restoreConversation().              *)
(* SpecPage    search_trials served pages longer than the tool shows.      *)
(* SpecFormat  get_trial_treatment_info on registry studies with short and *)
(*             long intervention descriptions.                             *)
(* SpecCLI     the chat() loop of the command-line agents.                 *)
(***************************************************************************)
EXTENDS Integers, Sequences, FiniteSets, TLC

\* ---------------------------------------------------------------- bounds
MaxCalls == 2        \* function calls in one model response
MaxTurns == 1        \* chat() calls made by the sequential caller (Spec)
MaxHandlers == 2     \* messages delivered to the worker (SpecWorker)
MaxResponses == 2    \* model responses produced for the worker (SpecWorker)
MaxSearches == 2     \* search_trials calls served by the trial source (SpecTools)
MaxResults == 2      \* trials in one page of search results (SpecTools)
MaxChats == 2        \* chat() calls made by the sequential caller (SpecTurn)
MaxReplies == 4      \* model responses produced for the caller (SpecTurn)
MaxBatchReplies == 2 \* model responses produced for the caller (SpecBatch)
MaxBatchResults == 1 \* trials in one page of search results (SpecBatch)
MaxPageSize == 21    \* trials in one page of search results (SpecPage)
MaxPageCalls == 1    \* search_trials calls served by the trial source (SpecPage)
MaxDescription == 202   \* characters of an intervention's description (SpecFormat)
MaxInterventions == 2   \* interventions of a registry study (SpecFormat)
MaxCliResponses == 12   \* model responses produced for a command-line agent (SpecCLI)

\* ------------------------------------------------------ program constants
maxLoops == 10

NoToken == 0         \* previousResponseId === undefined / empty slot
StoredToken == 1     \* a token persisted by an earlier worker run
FirstId == 2         \* ids the model endpoint hands out are fresh: 2, 3, ...

Surfaces == {"content", "popup"}

\* executeTool: the case labels
KnownTools ==
  {"search_trials", "get_study_details", "get_trial_eligibility",
   "get_trial_treatment_info", "get_available_cancer_types",
   "search_all_trials"}

NoZip == "none"        \* zipCode undefined
GoodZip == "37203"     \* a ZIP code of the coordinate table
BadZip == "00000"      \* a ZIP code the coordinate table does not hold

\* arguments of a call: the properties executeTool reads
NoArgs == [zipCode |-> NoZip, studyId |-> <<>>, nctId |-> <<>>, location |-> <<>>]

\* a function_call item for the tool `name`: argsOk, its arguments parse as
\* JSON, to `args`
FunctionCall(name, argsOk, args) ==
  [type |-> "function_call", name |-> name, argsOk |-> argsOk, args |-> args]

\* shapes of a function_call item: a known tool with parsable arguments, a
\* known tool whose arguments are not JSON, a tool name executeTool rejects
CallShapes ==
  { FunctionCall("search_trials", TRUE, NoArgs),
    FunctionCall("search_trials", FALSE, NoArgs),
    FunctionCall("no_such_tool", TRUE, NoArgs) }

RECURSIVE SeqsUpTo(_, _)
SeqsUpTo(S, n) ==
  IF n = 0 THEN { <<>> }
  ELSE LET shorter == SeqsUpTo(S, n - 1)
       IN shorter \cup { Append(s, x) : s \in { t \in shorter : Len(t) = n - 1 }, x \in S }

CallBatches == SeqsUpTo(CallShapes, MaxCalls)

Statuses == {"completed", "incomplete"}

\* the responses the worker's turns receive: completed, final or calling a
\* known tool
WorkerCallBatches ==
  { <<>>, << FunctionCall("search_trials", TRUE, NoArgs) >> }

WorkerStatuses == {"completed"}

VARIABLES
  agent,          \* background: module variable `agent` (0 = null)
  insts,          \* number of TrialAgent instances constructed so far
  token,          \* instance -> previousResponseId (NoToken = undefined)
  profile,        \* instance -> patientProfile (0 = undefined)
  storedKey,      \* chrome.storage.local openai_api_key is set
  embeddedKey,    \* EMBEDDED_KEY is non-empty
  storedProfile,  \* chrome.storage.local patient_profile (0 = unset)
  slot,           \* chrome.storage.session previousResponseId (NoToken = unset)
  nextId,         \* next response id of the model endpoint
  h,              \* the activations: the caller (Spec) or message handlers
  arrived,        \* messages delivered to the worker so far
  turnsDone,      \* chat() calls started by the sequential caller
  trialCache,     \* TrialAgent.trialCache: the Map's entries in insertion order
  exec            \* the executeTool activation of a direct caller (SpecTools)

\* what executeTool reads and writes
toolVars == <<trialCache, exec>>

vars == <<agent, insts, token, profile, storedKey, embeddedKey, storedProfile,
          slot, nextId, h, arrived, turnsDone, trialCache, exec>>

Handlers == 1..MaxHandlers
Insts == 1..MaxHandlers

\* getSystemPrompt: the static prompt and the context derived from the
\* patient profile `p`
SystemPrompt(p) == [base |-> "static", context |-> p]

NoPrompt == [base |-> "none", context |-> 0]

\* the names of the tool schemas
AGENT_TOOLS ==
  {"search_trials", "get_study_details", "get_trial_eligibility",
   "get_trial_treatment_info", "get_available_cancer_types",
   "search_all_trials"}

NoReq ==
  [kind |-> "none", prev |-> NoToken, input |-> "none", pairs |-> <<>>,
   instructions |-> NoPrompt, tools |-> {}]
NoResp == [id |-> 0, status |-> "none", output |-> <<>>]

\* what chat() returns: text, and trials unless undefined (hasTrials)
NoRet == [text |-> <<>>, trials |-> <<>>, hasTrials |-> FALSE]

\* an activation record: the locals of handleMessage / getAgent / chat
Blank ==
  [type |-> "none", pc |-> "free", from |-> "none",
   inst |-> 0,            \* agentInstance
   created |-> 0,         \* the instance getAgent constructed in this activation
   req |-> NoReq,         \* arguments of the last responses.create call
   resp |-> NoResp,       \* chat: response
   loopCount |-> 0,       \* chat: loopCount
   k |-> 0,               \* chat: position of `call` in functionCalls
   toolResults |-> <<>>,  \* chat: toolResults
   allTrials |-> <<>>,    \* chat: allTrials
   ret |-> NoRet,         \* the value chat() resolved to
   answered |-> {},       \* ids of the responses of this turn whose calls were answered
   modelCalls |-> 0,      \* responses.create calls issued in this turn
   batches |-> 0,         \* tool batches executed in this turn
   outcome |-> "none",    \* chat(): "resolved" | "rejected"
   tokBefore |-> NoToken, \* token the instance held just before resetConversation(),
                          \* or that the caller read before calling chat()
   over |-> 0,            \* RESET_CONVERSATION: the instance, if a CHAT turn was in
                          \* flight on it when resetConversation() ran (0: none)
   cacheAtReset |-> <<>>, \* the caller's last resetConversation(): the cache then
   saveVal |-> -1]        \* value handed to chrome.storage.session.set (-1: none)

\* ------------------------------------------------------- TrialAgent.chat

\* variant: the first call always opens a new conversation
InitialRequest_fresh(tok) ==
  [kind |-> "initial", prev |-> NoToken, input |-> "structured", pairs |-> <<>>]

\* chat: input and previous_response_id of the first responses.create
InitialRequest(tok) ==
  [kind |-> "initial", prev |-> tok,
   input |-> IF tok # NoToken THEN "text" ELSE "structured",
   pairs |-> <<>>]

\* variant: the continuation call does not chain from the response
ContinuationRequest_unchained(resp, results) ==
  [kind |-> "continuation", prev |-> NoToken, input |-> "tool_outputs",
   pairs |-> results]

\* chat: the responses.create call that continues with the tool results
ContinuationRequest(resp, results) ==
  [kind |-> "continuation", prev |-> resp.id, input |-> "tool_outputs",
   pairs |-> results]

\* chat: the arguments both responses.create calls add, for instance `inst`
CreateArgs(req, inst) ==
  [kind |-> req.kind, prev |-> req.prev, input |-> req.input,
   pairs |-> req.pairs,
   instructions |-> SystemPrompt(profile[inst]), tools |-> AGENT_TOOLS]

\* variant: the loop has no iteration limit
LoopContinues_nolimit(resp, loopCount) ==
  resp.status = "completed"

\* chat: condition of the while loop
LoopContinues(resp, loopCount) ==
  resp.status = "completed" /\ loopCount < maxLoops

\* chat: functionCalls = response.output.filter(type === 'function_call')
FunctionCalls(resp) ==
  SelectSeq(resp.output, LAMBDA item : item.type = "function_call")

\* chat: toolResults.push in the try branch; of the stringified result the
\* pair keeps whether it has an `error` property and its `trials`
PushResult(results, call, result) ==
  Append(results, [call_id |-> call.call_id,
                   output |-> [error |-> result.error, trials |-> result.trials]])

\* variant: the catch branch only logs
PushError_logonly(results, call) == results

\* chat: toolResults.push in the catch branch
PushError(results, call) ==
  Append(results, [call_id |-> call.call_id,
                   output |-> [error |-> TRUE, trials |-> <<>>]])

\* variant: no per-call try, the exception leaves chat()
CatchToolError_rethrow(r, call) ==
  [r EXCEPT !.outcome = "rejected", !.k = @ + 1]

\* chat: the catch branch of the per-call try
CatchToolError(r, call) ==
  [r EXCEPT !.toolResults = PushError(@, call), !.k = @ + 1]

\* variant: previousResponseId is assigned before the continuation call
FinalResponseId_stale(r) ==
  IF r.answered # {}
  THEN CHOOSE x \in r.answered : \A y \in r.answered : y <= x
  ELSE r.resp.id

\* variant: previousResponseId is left as it was
FinalResponseId_kept(r) == token[r.inst]

\* chat: the id stored in previousResponseId after the loop
FinalResponseId(r) == r.resp.id

\* the string chat() returns when the response has no text
Apology == <<"I", " ", "a", "p", "o", "l", "o", "g", "i", "z", "e">>

\* Array.prototype.join('\n') of strings
RECURSIVE Join(_)
Join(texts) ==
  IF texts = <<>> THEN <<>>
  ELSE IF Len(texts) = 1 THEN texts[1]
       ELSE texts[1] \o <<"\n">> \o Join(Tail(texts))

\* chat: textOutput?.content?.filter(output_text).map(c => c.text)
TextSegments(resp) ==
  LET messages == SelectSeq(resp.output, LAMBDA item : item.type = "message")
      parts == IF messages = <<>> THEN <<>>
               ELSE SelectSeq(messages[1].content,
                              LAMBDA c : c.type = "output_text")
  IN [n \in 1..Len(parts) |-> parts[n].text]

\* chat: text = ...join('\n') || 'I apologize, ...'
ExtractText(resp) ==
  IF Join(TextSegments(resp)) = <<>> THEN Apology
  ELSE Join(TextSegments(resp))

\* chat: the returned object
ChatResult(r) ==
  [text |-> ExtractText(r.resp), trials |-> r.allTrials,
   hasTrials |-> Len(r.allTrials) > 0]

\* chat: first statements, up to the first responses.create
ChatBegin(r, tok) ==
  [r EXCEPT !.pc = "awaitModel",
            !.req = CreateArgs(InitialRequest(tok), r.inst),
            !.resp = NoResp, !.loopCount = 0, !.k = 0, !.toolResults = <<>>,
            !.allTrials = <<>>, !.ret = NoRet,
            !.answered = {}, !.modelCalls = 1, !.batches = 0,
            !.outcome = "none"]

\* chat: the for loop over functionCalls from position r.k, up to the next
\* awaited data-source call or, past the last call, the continuation request
RECURSIVE RunBatch(_)
RunBatch(r) ==
  IF r.k > Len(FunctionCalls(r.resp))
  THEN [r EXCEPT !.pc = "awaitModel",
                 !.req = CreateArgs(ContinuationRequest(r.resp, r.toolResults),
                                    r.inst),
                 !.answered = @ \cup {r.resp.id},
                 !.modelCalls = @ + 1, !.batches = @ + 1]
  ELSE LET call == FunctionCalls(r.resp)[r.k]
       IN IF ~call.argsOk \/ call.name \notin KnownTools
          THEN RunBatch(CatchToolError(r, call))
          ELSE [r EXCEPT !.pc = "awaitTool"]

\* the activation once chat() has returned: its request and loop locals are
\* gone; the last response and the turn's counts are kept for the properties
ChatReturned(r) ==
  [r EXCEPT !.req = NoReq, !.loopCount = 0, !.k = 0, !.toolResults = <<>>,
            !.allTrials = <<>>]

\* handleMessage once agentInstance.chat() has settled: of the turn it keeps
\* the outcome and, for the properties, the id of the last response
TurnSettled(r, outcome) ==
  [Blank EXCEPT !.type = r.type, !.from = r.from, !.inst = r.inst,
                !.created = r.created, !.outcome = outcome,
                !.resp = [NoResp EXCEPT !.id = r.resp.id]]

\* the listener has answered the sender (pc "done": handleMessage's value,
\* "error": an ERROR response); the activation's locals are gone, what a
\* RESET_CONVERSATION did is kept for the properties
Answered(r, pc) ==
  [Blank EXCEPT !.type = r.type, !.pc = pc, !.tokBefore = r.tokBefore,
                !.over = r.over]

\* background: saveConversationState, called when chat() has resolved
SaveAfterChat(r, tok) ==
  IF agent # 0
  THEN [TurnSettled(r, "resolved") EXCEPT !.pc = "saving", !.saveVal = tok[agent]]
  ELSE Answered(TurnSettled(r, "resolved"), "done")

\* chat() resolves: to the sequential caller, or to handleMessage
Resolved(r, tok) ==
  IF r.type = "API"
  THEN [ChatReturned(r) EXCEPT !.pc = "idle", !.outcome = "resolved",
                               !.ret = ChatResult(r)]
  ELSE SaveAfterChat(r, tok)

\* variant: the worker saves the conversation state after a failed turn too
Rejected_saved(r) == SaveAfterChat(r, token)

\* chat() rejects: to the sequential caller, or to the listener's catch
Rejected(r) ==
  IF r.type = "API"
  THEN [ChatReturned(r) EXCEPT !.pc = "idle", !.outcome = "rejected"]
  ELSE Answered(TurnSettled(r, "rejected"), "error")

\* the response of the model endpoint: a fresh id and the output items
\* `items`, function calls getting their call_id
NewResponse(st, items) ==
  [id |-> nextId, status |-> st,
   output |-> [n \in 1..Len(items) |->
                 IF items[n].type = "function_call"
                 THEN [type |-> "function_call", call_id |-> <<nextId, n>>,
                       name |-> items[n].name, argsOk |-> items[n].argsOk,
                       args |-> items[n].args]
                 ELSE items[n]]]

\* a responses.create call returns a response
ModelReturn(i, st, cs) ==
  /\ h[i].pc = "awaitModel"
  /\ LET resp == NewResponse(st, cs)
         r == [h[i] EXCEPT !.req = NoReq, !.resp = resp, !.toolResults = <<>>,
                           !.k = 1]
     IN IF LoopContinues(resp, r.loopCount) /\ FunctionCalls(resp) # <<>>
        THEN /\ h' = [h EXCEPT ![i] = RunBatch([r EXCEPT !.loopCount = @ + 1])]
             /\ token' = token
        ELSE /\ token' = [token EXCEPT ![r.inst] = FinalResponseId(r)]
             /\ h' = [h EXCEPT ![i] = Resolved(r, token')]
  /\ nextId' = nextId + 1
  /\ UNCHANGED <<agent, insts, profile, storedKey, embeddedKey, storedProfile,
                 slot, arrived, turnsDone>>
  /\ UNCHANGED toolVars

\* a responses.create call throws
ModelThrow(i) ==
  /\ h[i].pc = "awaitModel"
  /\ h' = [h EXCEPT ![i] = Rejected(h[i])]
  /\ UNCHANGED <<agent, insts, token, profile, storedKey, embeddedKey,
                 storedProfile, slot, nextId, arrived, turnsDone>>
  /\ UNCHANGED toolVars

\* the tools whose result has a `trials` property
TrialTools == {"search_trials", "search_all_trials"}

\* variant: allTrials is overwritten by the latest search
CollectTrials_latest(all, call, result) ==
  IF call.name = "search_trials" THEN result.trials ELSE all

\* chat: collect trials from search results
CollectTrials(all, call, result) ==
  IF call.name = "search_trials" THEN all \o result.trials ELSE all

\* chat: the executeTool call for the call at position k has returned a
\* result with the list `trials` (ok) or thrown (~ok)
ToolSettled(i, ok, trials) ==
  /\ h[i].pc = "awaitTool"
  /\ trials # <<>> => (ok /\ FunctionCalls(h[i].resp)[h[i].k].name \in TrialTools)
  /\ LET r == h[i]
         call == FunctionCalls(r.resp)[r.k]
         result == [error |-> FALSE, trials |-> trials]
     IN h' = [h EXCEPT ![i] =
                RunBatch(IF ok
                         THEN [r EXCEPT !.toolResults = PushResult(@, call, result),
                                        !.allTrials = CollectTrials(@, call, result),
                                        !.k = @ + 1]
                         ELSE CatchToolError(r, call))]
  /\ UNCHANGED <<agent, insts, token, profile, storedKey, embeddedKey,
                 storedProfile, slot, nextId, arrived, turnsDone>>

\* executeTool returns or throws, its work on the cache left out
ToolReturn(i, ok, trials) ==
  /\ ToolSettled(i, ok, trials)
  /\ UNCHANGED toolVars

\* ------------------------------------------- strings, trials, the cache

\* a string is the sequence of its characters
UpperChar(c) ==
  CASE c = "b" -> "B" [] c = "n" -> "N" [] c = "c" -> "C" [] c = "t" -> "T"
    [] OTHER -> c

\* String.prototype.toUpperCase
ToUpperCase(s) == [n \in 1..Len(s) |-> UpperChar(s[n])]

\* String.prototype.trim, the white space being the blank
RECURSIVE Trim(_)
Trim(s) ==
  IF s = <<>> THEN s
  ELSE IF Head(s) = " " THEN Trim(Tail(s))
  ELSE IF s[Len(s)] = " " THEN Trim(SubSeq(s, 1, Len(s) - 1))
  ELSE s

\* String.prototype.includes
Includes(s, t) ==
  \E o \in 0..(Len(s) - Len(t)) : SubSeq(s, o + 1, o + Len(t)) = t

\* geo getZipCoordinates(zipCode) is not null
ZipResolves(zip) == zip = GoodZip

None == -1             \* distance undefined
NoCoord == -2          \* a location without parsable latitude / longitude

\* the trial source's records; a location is its calculateDistance from
\* GoodZip (a rounded number of miles) or NoCoord; two names differ in case
\* only, and the id of one record is a part of the names of the others
TrialPool ==
  { [studyId |-> <<"x">>, studyName |-> <<"B", "1">>,
     officeList |-> <<5>>, siteList |-> <<>>],
    [studyId |-> <<"1">>, studyName |-> <<"B", "2">>,
     officeList |-> <<20, 0>>, siteList |-> <<>>],
    [studyId |-> <<"z">>, studyName |-> <<"b", "1">>,
     officeList |-> <<>>, siteList |-> <<NoCoord>>] }

NoTrial == [studyId |-> <<>>, studyName |-> <<>>, officeList |-> <<>>,
            siteList |-> <<>>]

NoEntry == [key |-> <<"-">>, trial |-> NoTrial, userZipCode |-> NoZip]

\* variant: a key that is present keeps its entry
MapSet_keep(cache, key, trial, zip) ==
  IF \E n \in 1..Len(cache) : cache[n].key = key THEN cache
  ELSE Append(cache, [key |-> key, trial |-> trial, userZipCode |-> zip])

\* Map.prototype.set: an existing key keeps its place, a new one goes last
MapSet(cache, key, trial, zip) ==
  LET e == [key |-> key, trial |-> trial, userZipCode |-> zip]
  IN IF \E n \in 1..Len(cache) : cache[n].key = key
     THEN [n \in 1..Len(cache) |-> IF cache[n].key = key THEN e ELSE cache[n]]
     ELSE Append(cache, e)

\* Map.prototype.get
MapGet(cache, key) ==
  IF \E n \in 1..Len(cache) : cache[n].key = key
  THEN cache[CHOOSE n \in 1..Len(cache) : cache[n].key = key]
  ELSE NoEntry

\* variant: a trial is cached under its studyId only
CacheOne_idonly(cache, trial, zip) ==
  MapSet(cache, trial.studyId, trial, zip)

\* cacheTrials: the body of the loop, for one trial
CacheOne(cache, trial, zip) ==
  LET byId == MapSet(cache, trial.studyId, trial, zip)
  IN IF trial.studyName # <<>>
     THEN MapSet(byId, ToUpperCase(trial.studyName), trial, zip)
     ELSE byId

\* variant: the search does not write the cache before it returns
CacheTrials_later(cache, trials, zip) == cache

\* TrialAgent.cacheTrials
RECURSIVE CacheTrials(_, _, _)
CacheTrials(cache, trials, zip) ==
  IF trials = <<>> THEN cache
  ELSE LET next == CacheOne(cache, Head(trials), zip)
       IN IF next = <<>> THEN next   \* (never: the Map now has this trial)
          ELSE CacheTrials(next, Tail(trials), zip)

\* getCachedTrial: the partial match on the keys, in insertion order
PartialMatch(cache, studyId) ==
  LET hits == { n \in 1..Len(cache) :
                  \/ Includes(cache[n].key, ToUpperCase(studyId))
                  \/ Includes(ToUpperCase(studyId), cache[n].key) }
  IN IF hits = {} THEN NoEntry
     ELSE cache[CHOOSE n \in hits : \A m \in hits : n <= m]

\* variant: the partial match is tried first
GetCachedTrial_partfirst(cache, studyId) ==
  IF PartialMatch(cache, studyId) # NoEntry THEN PartialMatch(cache, studyId)
  ELSE MapGet(cache, studyId)

\* variant: the cache is not consulted
GetCachedTrial_skipped(cache, studyId) == NoEntry

\* variant: exact and upper-case lookups only
GetCachedTrial_exact(cache, studyId) ==
  IF MapGet(cache, studyId) # NoEntry THEN MapGet(cache, studyId)
  ELSE MapGet(cache, ToUpperCase(studyId))

\* TrialAgent.getCachedTrial
GetCachedTrial(cache, studyId) ==
  IF MapGet(cache, studyId) # NoEntry THEN MapGet(cache, studyId)
  ELSE IF MapGet(cache, ToUpperCase(studyId)) # NoEntry
       THEN MapGet(cache, ToUpperCase(studyId))
       ELSE PartialMatch(cache, studyId)

\* ------------------------------------------------ TrialAgent.executeTool

\* search_trials: the loop over the locations of one trial; the distance of
\* the closest location with coordinates, None when there is none
RECURSIVE MinDistance(_, _)
MinDistance(locations, minDist) ==
  IF locations = <<>> THEN minDist
  ELSE LET d == Head(locations)
       IN IF d # NoCoord /\ (minDist = None \/ d < minDist)
          THEN MinDistance(Tail(locations), d)
          ELSE MinDistance(Tail(locations), minDist)

\* search_trials: the slim projection of one trial
SlimResult(t, hasCoords) ==
  LET locations == IF Len(t.officeList) > 0 THEN t.officeList ELSE t.siteList
  IN [id |-> t.studyId, name |-> t.studyName,
      distance |-> IF hasCoords /\ Len(locations) > 0
                   THEN MinDistance(locations, None)
                   ELSE None]

\* search_trials: the comparator's operand, a.distance || 999
SortKey(distance) == IF distance = 0 THEN 999 ELSE distance

\* Array.prototype.sort with the comparator (stable): x goes behind every
\* element whose key is not larger
RECURSIVE InsertSorted(_, _)
InsertSorted(sorted, x) ==
  IF sorted = <<>> THEN <<x>>
  ELSE IF SortKey(Head(sorted).distance) <= SortKey(x.distance)
       THEN <<Head(sorted)>> \o InsertSorted(Tail(sorted), x)
       ELSE <<x>> \o sorted

RECURSIVE SortByDistance(_, _)
SortByDistance(rest, sorted) ==
  IF rest = <<>> THEN sorted
  ELSE SortByDistance(Tail(rest), InsertSorted(sorted, Head(rest)))

\* variant: no slice
Take_all(seq, n) == seq

\* Array.prototype.slice(0, n)
Take(seq, n) == SubSeq(seq, 1, IF Len(seq) < n THEN Len(seq) ELSE n)

HasDistance(t) == t.distance # None

ShowLimit == 20

\* search_trials: sortedResults
SortedResults(slimResults, zip) ==
  IF zip # NoZip
  THEN LET near == Take(SortByDistance(SelectSeq(slimResults, HasDistance), <<>>),
                        ShowLimit)
       IN IF Len(near) < ShowLimit
          THEN near \o Take(SelectSeq(slimResults, LAMBDA t : ~HasDistance(t)),
                            ShowLimit - Len(near))
          ELSE near
  ELSE Take(slimResults, ShowLimit)

NoSummary == [id |-> <<>>, name |-> <<>>, locationCount |-> 0, closest |-> None]

\* toTrialSummary: the comparator's operand, a.distance || Infinity
Infinity == 1000000

SummaryKey(distance) == IF distance = 0 THEN Infinity ELSE distance

\* toTrialSummary: the distance of closestLocation, the first of the
\* locations that have a distance in the (stable) order of the comparator,
\* or None
ClosestDistance(locations, hasCoords) ==
  LET withDistance == SelectSeq(locations, LAMBDA d : d # NoCoord)
      first == CHOOSE n \in 1..Len(withDistance) :
                 \A m \in 1..Len(withDistance) :
                   \/ SummaryKey(withDistance[n]) < SummaryKey(withDistance[m])
                   \/ /\ SummaryKey(withDistance[n]) = SummaryKey(withDistance[m])
                      /\ n <= m
  IN IF ~hasCoords \/ withDistance = <<>> THEN None
     ELSE withDistance[first]

\* SCRIApiClient.toTrialSummary: the identity of the trial, the number of
\* its locations and the distance of the closest one
ToTrialSummary(trial, zip) ==
  LET locations == IF Len(trial.officeList) > 0 THEN trial.officeList
                   ELSE trial.siteList
  IN [id |-> trial.studyId, name |-> trial.studyName,
      locationCount |-> Len(locations),
      closest |-> ClosestDistance(locations, zip # NoZip /\ ZipResolves(zip))]

\* the value executeTool resolves to; error: it has an `error` property
NoResult ==
  [kind |-> "none", error |-> FALSE, found |-> "na", source |-> "na",
   totalFound |-> 0, showing |-> 0, trials |-> <<>>, trial |-> NoSummary,
   treatmentInfo |-> <<>>]

\* search_trials: the returned object
SearchResult(searchData, zip) ==
  LET data == searchData.searchResultsData
      sortedResults ==
        SortedResults([n \in 1..Len(data) |->
                         SlimResult(data[n], ZipResolves(zip))], zip)
  IN [NoResult EXCEPT
        !.kind = "search", !.totalFound = searchData.totalItemCount,
        !.showing = Len(sortedResults), !.trials = sortedResults]

\* get_study_details: the three returned objects
DetailsFound(summary, source) ==
  [NoResult EXCEPT !.kind = "details", !.found = TRUE, !.source = source,
                   !.trial = summary]

DetailsNotFound ==
  [NoResult EXCEPT !.kind = "details", !.found = FALSE, !.error = TRUE]

\* get_trial_eligibility / get_trial_treatment_info: the returned objects
StudyInfo == [NoResult EXCEPT !.kind = "study"]

StudyError == [NoResult EXCEPT !.kind = "study", !.error = TRUE]

\* get_available_cancer_types: the returned list
CancerTypes == [NoResult EXCEPT !.kind = "list"]

\* search_all_trials: the returned object for `n` results of searchCTGov
BackstopResult(n) ==
  [NoResult EXCEPT !.kind = "backstop", !.source = "ClinicalTrials.gov",
                   !.totalFound = n]

\* chat: output of the function_call_output pushed in the catch branch
ErrorOutput == [NoResult EXCEPT !.kind = "caught", !.error = TRUE]

\* variant: fetchCTGovStudy without the prefix check
StartsWithNCT_unchecked(nctId) == TRUE

\* fetchCTGovStudy: cleanNctId.startsWith('NCT')
StartsWithNCT(nctId) ==
  LET clean == Trim(ToUpperCase(nctId))
  IN Len(clean) >= 3 /\ SubSeq(clean, 1, 3) = <<"N", "C", "T">>

\* executeTool as called directly: the call in progress or the last one made
\* (threw / result: how it settled; up: how its last data-source request
\* ended, "none" without a request; data: the page a search was served), and
\* the searches served so far
ExecIdle ==
  [pc |-> "idle", name |-> "none", args |-> NoArgs, threw |-> FALSE,
   result |-> NoResult, up |-> "none", data |-> <<>>, searches |-> 0,
   searched |-> {}, requests |-> <<>>, total |-> 0]

\* executeTool resolves with `result`
ExecResolved(e, result, up) ==
  [e EXCEPT !.pc = "idle", !.threw = FALSE, !.result = result, !.up = up]

\* executeTool rejects
ExecRejected(e, up) ==
  [e EXCEPT !.pc = "idle", !.threw = TRUE, !.result = NoResult, !.up = up]

\* chat: the output of the pair pushed for a call that settled as `e`
CallOutput(e) == IF e.threw THEN ErrorOutput ELSE e.result

\* ------------------------------------- the TrialAgent API, one caller (Spec)

Caller == 1

\* the caller between two calls, holding no result of chat()
IdleCaller(inst) == [Blank EXCEPT !.type = "API", !.pc = "idle", !.inst = inst]

\* agent.chat(text), the caller having made fewer than `limit` calls
StartChat(limit) ==
  /\ h[Caller].pc = "idle"
  /\ turnsDone < limit
  /\ h' = [h EXCEPT ![Caller] =
                [ChatBegin(h[Caller], token[h[Caller].inst])
                   EXCEPT !.tokBefore = token[h[Caller].inst]]]
  /\ turnsDone' = turnsDone + 1
  /\ UNCHANGED <<agent, insts, token, profile, storedKey, embeddedKey,
                 storedProfile, slot, nextId, arrived>>
  /\ UNCHANGED toolVars

\* agent.chat(text)
ApiChat == StartChat(MaxTurns)

\* variant: only conversationId is cleared
ResetToken_keep(tok, inst) == tok

\* TrialAgent.resetConversation
ResetToken(tok, inst) == [tok EXCEPT ![inst] = NoToken]

\* variant: the reset clears the trial cache too
CacheAfterReset_cleared(cache) == <<>>

\* TrialAgent.resetConversation: trialCache is not assigned
CacheAfterReset(cache) == cache

\* agent.resetConversation()
ApiReset ==
  /\ h[Caller].pc = "idle"
  /\ token' = ResetToken(token, h[Caller].inst)
  /\ trialCache' = CacheAfterReset(trialCache)
  /\ h' = [h EXCEPT ![Caller] =
                [IdleCaller(h[Caller].inst)
                   EXCEPT !.tokBefore = token[h[Caller].inst],
                          !.cacheAtReset = trialCache]]
  /\ UNCHANGED <<agent, insts, profile, storedKey, embeddedKey, storedProfile,
                 slot, nextId, arrived, turnsDone, exec>>

\* TrialAgent.restoreConversationState
RestoreToken(tok, inst, t) == [tok EXCEPT ![inst] = t]

\* agent.restoreConversationState(t), t a token saved earlier
ApiRestore(t) ==
  /\ h[Caller].pc = "idle"
  /\ token' = RestoreToken(token, h[Caller].inst, t)
  /\ h' = [h EXCEPT ![Caller] = IdleCaller(h[Caller].inst)]
  /\ UNCHANGED <<agent, insts, profile, storedKey, embeddedKey, storedProfile,
                 slot, nextId, arrived, turnsDone>>
  /\ UNCHANGED toolVars

Init ==
  /\ agent = 0
  /\ insts = 1
  /\ token = [n \in Insts |-> NoToken]
  /\ profile = [n \in Insts |-> 0]
  /\ storedKey = TRUE
  /\ embeddedKey = FALSE
  /\ storedProfile = 0
  /\ slot = NoToken
  /\ nextId = FirstId
  /\ h = [i \in Handlers |->
            IF i = Caller THEN IdleCaller(1) ELSE Blank]
  /\ arrived = 0
  /\ turnsDone = 0
  /\ trialCache = <<>>
  /\ exec = ExecIdle

Next ==
  \/ ApiChat
  \/ ApiReset
  \/ \E t \in {StoredToken} : ApiRestore(t)
  \/ \E st \in Statuses, cs \in CallBatches : ModelReturn(Caller, st, cs)
  \/ ModelThrow(Caller)
  \/ \E ok \in BOOLEAN : ToolReturn(Caller, ok, <<>>)

Spec == Init /\ [][Next]_vars

\* ------------------------------------- the background worker (SpecWorker)

MessageTypes == {"CHAT", "RESET_CONVERSATION", "SET_API_KEY", "UPDATE_PROFILE"}

\* TrialAgent.getConversationState
GetConversationState(tok, inst) ==
  [previousResponseId |-> tok[inst], hasActiveConversation |-> tok[inst] # NoToken]

\* content sendMessage / popup sendMessage: no CHAT is sent while one is pending
SurfaceIdle(from) ==
  \A j \in Handlers :
    (h[j].type = "CHAT" /\ h[j].from = from) => h[j].pc \in {"done", "error"}

\* a CHAT handler is inside chat() on instance `inst`
TurnInFlight(inst) ==
  \E j \in Handlers :
    h[j].type = "CHAT" /\ h[j].inst = inst /\ h[j].pc \in {"awaitModel", "awaitTool"}

\* handleMessage: the statements that follow `await getAgent()`, up to the
\* next awaited operation; tok is the token map at that point
AfterGetAgent(i, r, inst, tok) ==
  IF r.type = "CHAT"
  THEN /\ h' = [h EXCEPT ![i] = ChatBegin([r EXCEPT !.inst = inst], tok[inst])]
       /\ token' = tok
  ELSE /\ h' = [h EXCEPT ![i] = [r EXCEPT !.inst = inst, !.pc = "removing",
                                          !.tokBefore = tok[inst],
                                          !.over = IF TurnInFlight(inst)
                                                   THEN inst ELSE 0]]
       /\ token' = ResetToken(tok, inst)

\* onMessage listener and handleMessage, up to the first awaited operation
Receive(type, from) ==
  /\ arrived < MaxHandlers
  /\ type = "CHAT" => (from \in Surfaces /\ SurfaceIdle(from))
  /\ type # "CHAT" => from = "popup"
  /\ arrived' = arrived + 1
  /\ LET i == arrived + 1
         r == [Blank EXCEPT !.type = type, !.from = from]
     IN CASE type \in {"CHAT", "RESET_CONVERSATION"} ->
               IF agent # 0
               THEN AfterGetAgent(i, r, agent, token)
               ELSE /\ h' = [h EXCEPT ![i] = [r EXCEPT !.pc = "ga_local"]]
                    /\ token' = token
          [] type = "SET_API_KEY" ->
               /\ h' = [h EXCEPT ![i] = [r EXCEPT !.pc = "setKey"]]
               /\ token' = token
          [] type = "UPDATE_PROFILE" ->
               /\ h' = [h EXCEPT ![i] = [r EXCEPT !.pc = "setProfile"]]
               /\ token' = token
  /\ UNCHANGED <<agent, insts, profile, storedKey, embeddedKey, storedProfile,
                 slot, nextId, turnsDone>>
  /\ UNCHANGED toolVars

\* variant: getAgent constructs the agent without looking at the key
GetAgentLocal_nokeycheck(i) ==
  /\ h[i].pc = "ga_local"
  /\ insts' = insts + 1
  /\ agent' = insts + 1
  /\ profile' = [profile EXCEPT ![insts + 1] = storedProfile]
  /\ h' = [h EXCEPT ![i].pc = "ga_session", ![i].created = insts + 1]
  /\ UNCHANGED <<token, storedKey, embeddedKey, storedProfile, slot, nextId,
                 arrived, turnsDone>>
  /\ UNCHANGED toolVars

\* getAgent: chrome.storage.local.get completes; key check, new TrialAgent
GetAgentLocal(i) ==
  /\ h[i].pc = "ga_local"
  /\ IF ~(storedKey \/ embeddedKey)
     THEN /\ h' = [h EXCEPT ![i] = Answered(h[i], "error")]
          /\ UNCHANGED <<agent, insts, profile>>
     ELSE /\ insts' = insts + 1
          /\ agent' = insts + 1
          /\ profile' = [profile EXCEPT ![insts + 1] = storedProfile]
          /\ h' = [h EXCEPT ![i].pc = "ga_session", ![i].created = insts + 1]
  /\ UNCHANGED <<token, storedKey, embeddedKey, storedProfile, slot, nextId,
                 arrived, turnsDone>>
  /\ UNCHANGED toolVars

\* background restoreConversationState: chrome.storage.session.get completes;
\* getAgent then returns the module variable `agent`
GetAgentSession(i) ==
  /\ h[i].pc = "ga_session"
  /\ LET tok == IF slot # NoToken
                THEN RestoreToken(token, h[i].created, slot)
                ELSE token
     IN IF agent = 0
        THEN /\ h' = [h EXCEPT ![i] = Answered(h[i], "error")]
             /\ token' = tok
        ELSE AfterGetAgent(i, h[i], agent, tok)
  /\ UNCHANGED <<agent, insts, profile, storedKey, embeddedKey, storedProfile,
                 slot, nextId, arrived, turnsDone>>
  /\ UNCHANGED toolVars

\* saveConversationState: chrome.storage.session.set completes
SaveDone(i) ==
  /\ h[i].pc = "saving"
  /\ slot' = h[i].saveVal
  /\ h' = [h EXCEPT ![i] = Answered(h[i], "done")]
  /\ UNCHANGED <<agent, insts, token, profile, storedKey, embeddedKey,
                 storedProfile, nextId, arrived, turnsDone>>
  /\ UNCHANGED toolVars

\* RESET_CONVERSATION: chrome.storage.session.remove completes
RemoveDone(i) ==
  /\ h[i].pc = "removing"
  /\ slot' = NoToken
  /\ h' = [h EXCEPT ![i] = Answered(h[i], "done")]
  /\ UNCHANGED <<agent, insts, token, profile, storedKey, embeddedKey,
                 storedProfile, nextId, arrived, turnsDone>>
  /\ UNCHANGED toolVars

\* SET_API_KEY: chrome.storage.local.set completes; agent = null
SetKeyDone(i) ==
  /\ h[i].pc = "setKey"
  /\ storedKey' = TRUE
  /\ agent' = 0
  /\ h' = [h EXCEPT ![i] = Answered(h[i], "done")]
  /\ UNCHANGED <<insts, token, profile, embeddedKey, storedProfile, slot,
                 nextId, arrived, turnsDone>>
  /\ UNCHANGED toolVars

\* UPDATE_PROFILE: chrome.storage.local.set completes; agent.setPatientProfile
SetProfileDone(i) ==
  /\ h[i].pc = "setProfile"
  /\ storedProfile' = 1
  /\ profile' = IF agent # 0 THEN [profile EXCEPT ![agent] = 1] ELSE profile
  /\ h' = [h EXCEPT ![i] = Answered(h[i], "done")]
  /\ UNCHANGED <<agent, insts, token, storedKey, embeddedKey, slot, nextId,
                 arrived, turnsDone>>
  /\ UNCHANGED toolVars

InitWorker ==
  /\ agent = 0
  /\ insts = 0
  /\ token = [n \in Insts |-> NoToken]
  /\ profile = [n \in Insts |-> 0]
  /\ storedKey = FALSE
  /\ embeddedKey \in BOOLEAN
  /\ storedProfile = 0
  /\ slot \in {NoToken, StoredToken}
  /\ slot # NoToken => embeddedKey
  /\ nextId = FirstId
  /\ h = [i \in Handlers |-> Blank]
  /\ arrived = 0
  /\ turnsDone = 0
  /\ trialCache = <<>>
  /\ exec = ExecIdle

NextWorker ==
  \/ \E type \in MessageTypes, from \in Surfaces : Receive(type, from)
  \/ \E i \in Handlers : GetAgentLocal(i)
  \/ \E i \in Handlers : GetAgentSession(i)
  \/ \E i \in Handlers, st \in WorkerStatuses, cs \in WorkerCallBatches :
       nextId < FirstId + MaxResponses /\ ModelReturn(i, st, cs)
  \/ \E i \in Handlers : ModelThrow(i)
  \/ \E i \in Handlers, ok \in BOOLEAN : ToolReturn(i, ok, <<>>)
  \/ \E i \in Handlers : SaveDone(i)
  \/ \E i \in Handlers : RemoveDone(i)
  \/ \E i \in Handlers : SetKeyDone(i)
  \/ \E i \in Handlers : SetProfileDone(i)

SpecWorker == InitWorker /\ [][NextWorker]_vars

\* --------------------------- executeTool called directly (SpecTools)

agentVars == <<agent, insts, token, profile, storedKey, embeddedKey,
               storedProfile, slot, nextId, h, arrived, turnsDone>>

\* studyId arguments: ids, names in either case, a part of a name, a string
\* no key contains, the empty string
Queries ==
  { <<"x">>, <<"B", "1">>, <<"b", "2">>, <<"B">>, <<"1">>, <<"q">>, <<>> }

NctIds == { <<"N", "C", "T", "1">>, <<" ", "n", "c", "t", "1">>, <<"1">> }

\* location arguments: absent, blank, a place
Locations == { <<>>, <<" ">>, <<"A">> }

\* the tool names the direct-execution test and the worker's SEARCH_TRIALS
\* and GET_FILTERS handlers pass to executeTool
CallerTools ==
  {"check_location_coverage", "search_trials_nearby",
   "get_available_cancer_types"}

\* the listener: what sendResponse is given for a handler that awaited the
\* executeTool call settled as `e`
ListenerAnswer(e) == IF e.threw THEN "ERROR" ELSE "result"

ToolCalls ==
  { [name |-> "search_trials", args |-> [NoArgs EXCEPT !.zipCode = z]] :
      z \in {NoZip, GoodZip, BadZip} }
  \cup { [name |-> "get_study_details", args |-> [NoArgs EXCEPT !.studyId = q]] :
           q \in Queries }
  \cup { [name |-> n, args |-> [NoArgs EXCEPT !.nctId = id]] :
           n \in {"get_trial_eligibility", "get_trial_treatment_info"},
           id \in NctIds }
  \cup { [name |-> "search_all_trials", args |-> [NoArgs EXCEPT !.location = l]] :
           l \in Locations }
  \cup { [name |-> n, args |-> NoArgs] :
           n \in {"get_available_cancer_types", "no_such_tool"} }
  \cup { [name |-> n, args |-> [NoArgs EXCEPT !.zipCode = GoodZip]] :
           n \in CallerTools \ {"get_available_cancer_types"} }

\* pages of search results the trial source may return
SearchData == SeqsUpTo(TrialPool, MaxResults)

\* how a request to the trial source ends (SCRIApiClient.get)
ScriOutcomes == {"ok", "network", "status", "unsuccessful"}

\* how the registry's study request ends (fetchCTGovStudy)
StudyOutcomes == {"ok", "network", "status", "noProtocol"}

\* how the registry's search request ends (searchCTGov)
CTGovOutcomes == {"ok", "empty", "network", "status400", "status500"}

\* a request that ended in a network error or a non-2xx status
Failed(up) == up \in {"network", "status", "status400", "status500"}

\* searchCTGov: a request with the filter.geo parameter `geo` (<<>>: none)
CTGovRequest(geo) == [geo |-> geo, status |-> "pending"]

\* executeTool, from its call to the first awaited request or, when it needs
\* none, to its end
ExecCall(c) ==
  /\ exec.pc = "idle"
  /\ c.name = "search_trials" => exec.searches < MaxSearches
  /\ LET e == [exec EXCEPT !.name = c.name, !.args = c.args,
                           !.threw = FALSE, !.result = NoResult,
                           !.up = "none", !.data = <<>>, !.requests = <<>>,
                           !.total = 0]
         cached == GetCachedTrial(trialCache, c.args.studyId)
     IN exec' =
          CASE c.name = "search_trials" -> [e EXCEPT !.pc = "awaitSearch"]
            [] c.name = "get_study_details" ->
                 IF cached # NoEntry
                 THEN ExecResolved(e, DetailsFound(
                        ToTrialSummary(cached.trial, cached.userZipCode),
                        "cache"), "none")
                 ELSE [e EXCEPT !.pc = "awaitDetails"]
            [] c.name \in {"get_trial_eligibility", "get_trial_treatment_info"} ->
                 IF StartsWithNCT(c.args.nctId)
                 THEN [e EXCEPT !.pc = "awaitStudy"]
                 ELSE ExecResolved(e, StudyError, "none")
            [] c.name = "get_available_cancer_types" ->
                 [e EXCEPT !.pc = "awaitFilters"]
            [] c.name = "search_all_trials" ->
                 [e EXCEPT !.pc = "awaitCTGov",
                           !.requests = <<CTGovRequest(Trim(c.args.location))>>]
            [] OTHER -> ExecRejected(e, "none")
  /\ UNCHANGED <<trialCache, agentVars>>

\* search_trials: scriApi.searchTrials settles; cacheTrials, slim results
ExecPageDone(up, searchData) ==
  /\ exec.pc = "awaitSearch"
  /\ LET data == searchData.searchResultsData
     IN IF up = "ok"
        THEN /\ trialCache' = CacheTrials(trialCache, data, exec.args.zipCode)
             /\ exec' = [ExecResolved(exec,
                                      SearchResult(searchData, exec.args.zipCode),
                                      up)
                           EXCEPT !.data = data, !.searches = @ + 1,
                                  !.total = searchData.totalItemCount,
                                  !.searched =
                                    @ \cup {data[n] : n \in 1..Len(data)}]
        ELSE /\ trialCache' = trialCache
             /\ exec' = ExecRejected(exec, up)
  /\ UNCHANGED agentVars

\* search_trials answered by a source whose trials all fit the first page
ExecSearchDone(up, data) ==
  ExecPageDone(up, [searchResultsData |-> data, totalItemCount |-> Len(data)])

\* variant: get_study_details awaits getTrialDetails outside a try
DetailsOutcome_nocatch(e, up, trial) ==
  IF up = "ok"
  THEN ExecResolved(e, DetailsFound(ToTrialSummary(trial, NoZip), "api"), up)
  ELSE ExecRejected(e, up)

\* get_study_details: the try around getTrialDetails and toTrialSummary
DetailsOutcome(e, up, trial) ==
  IF up = "ok"
  THEN ExecResolved(e, DetailsFound(ToTrialSummary(trial, NoZip), "api"), up)
  ELSE ExecResolved(e, DetailsNotFound, up)

\* get_study_details: scriApi.getTrialDetails settles
ExecDetailsDone(up, trial) ==
  /\ exec.pc = "awaitDetails"
  /\ exec' = DetailsOutcome(exec, up, trial)
  /\ UNCHANGED <<trialCache, agentVars>>

\* get_available_cancer_types: scriApi.getCancerTypeList settles
ExecFiltersDone(up) ==
  /\ exec.pc = "awaitFilters"
  /\ exec' = IF up = "ok" THEN ExecResolved(exec, CancerTypes, up)
             ELSE ExecRejected(exec, up)
  /\ UNCHANGED <<trialCache, agentVars>>

\* variant: fetchCTGovStudy lets a failed fetch propagate
FetchCTGovStudy_nocatch(up) ==
  CASE up = "ok" -> "study" [] up = "network" -> "throw" [] OTHER -> "null"

\* fetchCTGovStudy: what it returns once its fetch has settled
FetchCTGovStudy(up) == IF up = "ok" THEN "study" ELSE "null"

\* get_trial_eligibility / get_trial_treatment_info: fetchCTGovStudy settles
ExecStudyDone(up) ==
  /\ exec.pc = "awaitStudy"
  /\ exec' = CASE FetchCTGovStudy(up) = "study" ->
                    ExecResolved(exec, StudyInfo, up)
               [] FetchCTGovStudy(up) = "null" ->
                    ExecResolved(exec, StudyError, up)
               [] OTHER -> ExecRejected(exec, up)
  /\ UNCHANGED <<trialCache, agentVars>>

\* the last request of `requests` ended as `up`
Settle(requests, up) == [requests EXCEPT ![Len(requests)].status = up]

\* searchCTGov: the response is a 400 and the request had a location
Retries(up, trimmedLocation) == up = "status400" /\ trimmedLocation # <<>>

\* variant: the retry repeats the location
RetryLocation_same(trimmedLocation) == trimmedLocation

\* searchCTGov(condition, undefined, distance, maxResults): the location of
\* the retry
RetryLocation(trimmedLocation) == Trim(<<>>)

\* search_all_trials: the fetch of searchCTGov settles; a 400 for a request
\* with a location filter is retried without the filter, any other failure
\* yields []
ExecBackstopDone(up) ==
  /\ exec.pc = "awaitCTGov"
  /\ LET geo == exec.requests[Len(exec.requests)].geo
         e == [exec EXCEPT !.requests = Settle(@, up)]
     IN exec' =
          CASE up = "ok" -> ExecResolved(e, BackstopResult(2), up)
            [] up = "empty" -> ExecResolved(e, BackstopResult(0), up)
            [] Retries(up, geo) ->
                 [e EXCEPT !.requests =
                    Append(@, CTGovRequest(RetryLocation(geo)))]
            [] OTHER -> ExecResolved(e, BackstopResult(0), up)
  /\ UNCHANGED <<trialCache, agentVars>>

\* patientProfile.zipCode of the profile `p` (0: no profile)
ProfileZip(p) == IF p = 0 THEN NoZip ELSE GoodZip

\* agent.setPatientProfile(profile), between two executeTool calls
ExecSetProfile ==
  /\ exec.pc = "idle"
  /\ profile[1] = 0
  /\ profile' = [profile EXCEPT ![1] = 1]
  /\ UNCHANGED <<agent, insts, token, storedKey, embeddedKey, storedProfile,
                 slot, nextId, h, arrived, turnsDone>>
  /\ UNCHANGED toolVars

NextTools ==
  \/ ExecSetProfile
  \/ \E c \in ToolCalls : ExecCall(c)
  \/ \E up \in ScriOutcomes, data \in SearchData : ExecSearchDone(up, data)
  \/ \E up \in ScriOutcomes, trial \in TrialPool : ExecDetailsDone(up, trial)
  \/ \E up \in ScriOutcomes : ExecFiltersDone(up)
  \/ \E up \in StudyOutcomes : ExecStudyDone(up)
  \/ \E up \in CTGovOutcomes : ExecBackstopDone(up)

SpecTools == Init /\ [][NextTools]_vars

\* ------------------------------ consecutive turns of one caller (SpecTurn)

\* content parts of a message item
OutputText(text) == [type |-> "output_text", text |-> text]

Refusal == [type |-> "refusal", refusal |-> <<"n", "o">>]

\* a message item of a response
Message(content) == [type |-> "message", content |-> content]

\* a function_call item for the tool `name`
ToolCall(name) == FunctionCall(name, TRUE, NoArgs)

\* the output of a response: no item, messages without text, with empty
\* text, with one and two segments, with a refusal, two messages, function
\* calls with and without a message
TurnOutputs ==
  { <<>>,
    << Message(<<>>) >>,
    << Message(<< OutputText(<<>>) >>) >>,
    << Message(<< OutputText(<<>>), OutputText(<<>>) >>) >>,
    << Message(<< OutputText(<<"a">>), OutputText(<<"b", "c">>) >>) >>,
    << Message(<< Refusal, OutputText(<<"a">>) >>) >>,
    << Message(<< OutputText(<<"a">>) >>), Message(<< OutputText(<<"b">>) >>) >>,
    << ToolCall("search_trials") >>,
    << Message(<< OutputText(<<"a">>) >>), ToolCall("search_all_trials"),
       ToolCall("search_trials") >> }

\* a trial of a result's `trials` list
Slim(id) == [id |-> id, name |-> id, distance |-> None]

\* the `trials` lists of tool results
TrialLists ==
  { <<>>, << Slim(<<"x">>) >>, << Slim(<<"y">>), Slim(<<"z">>) >> }

NextTurn ==
  \/ StartChat(MaxChats)
  \/ \E st \in Statuses, items \in TurnOutputs :
       nextId < FirstId + MaxReplies /\ ModelReturn(Caller, st, items)
  \/ ModelThrow(Caller)
  \/ \E ok \in BOOLEAN, trials \in TrialLists : ToolReturn(Caller, ok, trials)

SpecTurn == Init /\ [][NextTurn]_vars

\* --------------------- a turn whose tools work on the cache (SpecBatch)

SearchCall(zip) ==
  FunctionCall("search_trials", TRUE, [NoArgs EXCEPT !.zipCode = zip])

DetailsCall(studyId) ==
  FunctionCall("get_study_details", TRUE, [NoArgs EXCEPT !.studyId = studyId])

\* the function calls of a response: none, a search followed by a lookup
\* by id or by name, a lookup followed by a search, a search whose
\* arguments do not parse followed by a lookup
BatchOutputs ==
  { <<>>,
    << DetailsCall(<<"x">>), SearchCall(NoZip) >>,
    << FunctionCall("search_trials", FALSE, NoArgs), DetailsCall(<<"x">>) >> }
  \cup { << SearchCall(z), DetailsCall(q) >> :
           z \in {NoZip, GoodZip}, q \in { <<"x">>, <<"b", "2">> } }

\* chat: executeTool(call.name, args) is called for the call at position k
ToolStart(i) ==
  /\ h[i].pc = "awaitTool"
  /\ exec.name = "none"
  /\ LET call == FunctionCalls(h[i].resp)[h[i].k]
     IN ExecCall([name |-> call.name, args |-> call.args])

\* chat: the awaited executeTool call has settled; its activation is gone
ToolEnd(i) ==
  /\ exec.pc = "idle"
  /\ exec.name # "none"
  /\ ToolSettled(i, ~exec.threw, exec.result.trials)
  /\ exec' = [ExecIdle EXCEPT !.searches = exec.searches,
                              !.searched = exec.searched]
  /\ trialCache' = trialCache

NextBatch ==
  \/ ApiChat
  \/ \E st \in Statuses, items \in BatchOutputs :
       nextId < FirstId + MaxBatchReplies /\ ModelReturn(Caller, st, items)
  \/ ModelThrow(Caller)
  \/ ToolStart(Caller)
  \/ \E up \in ScriOutcomes, data \in SeqsUpTo(TrialPool, MaxBatchResults) :
       ExecSearchDone(up, data)
  \/ \E up \in ScriOutcomes, trial \in TrialPool : ExecDetailsDone(up, trial)
  \/ ToolEnd(Caller)

SpecBatch == Init /\ [][NextBatch]_vars

(***************************************************************************)
(* SpecReset: the caller searches, restores and resets the conversation    *)
(* and asks for study details; the tools run on the agent's cache.         *)
(***************************************************************************)

\* the executeTool calls of this caller
ResetCalls ==
  { [name |-> "search_trials", args |-> [NoArgs EXCEPT !.zipCode = z]] :
      z \in {NoZip, GoodZip} }
  \cup { [name |-> "get_study_details", args |-> [NoArgs EXCEPT !.studyId = q]] :
           q \in { <<"x">>, <<"B">>, <<"q">> } }

NextReset ==
  \/ ExecSetProfile
  \/ \E c \in ResetCalls : ExecCall(c)
  \/ \E up \in ScriOutcomes, data \in SeqsUpTo(TrialPool, MaxBatchResults) :
       ExecSearchDone(up, data)
  \/ \E up \in ScriOutcomes, trial \in TrialPool : ExecDetailsDone(up, trial)
  \/ exec.pc = "idle" /\ ApiReset
  \/ exec.pc = "idle" /\ ApiRestore(StoredToken)

SpecReset == Init /\ [][NextReset]_vars

(***************************************************************************)
(* SpecPage: search_trials is served pages of up to MaxPageSize trials     *)
(* with a total count of its own.                                          *)
(***************************************************************************)

Digit(k) == <<"0", "1", "2", "3", "4", "5", "6", "7", "8", "9">>[k + 1]

\* which locations of a page have coordinates, and how far they are
Patterns == {"far first", "none", "every other", "some at 0"}

\* the i-th trial of a page
PageTrial(i, pattern) ==
  [studyId |-> <<Digit(i \div 10), Digit(i % 10)>>,
   studyName |-> <<"T", Digit(i \div 10), Digit(i % 10)>>,
   officeList |->
     CASE pattern = "far first" -> <<MaxPageSize + 1 - i>>
       [] pattern = "none" -> <<>>
       [] pattern = "every other" -> IF i % 2 = 1 THEN <<i>> ELSE <<NoCoord>>
       [] OTHER -> <<i % 3>>,
   siteList |-> IF pattern = "none" THEN <<NoCoord>> ELSE <<>>]

\* SCRISearchData: a page of `n` trials of `more` further ones
Pages ==
  { [searchResultsData |-> [i \in 1..n |-> PageTrial(i, pattern)],
     totalItemCount |-> n + more] :
      n \in {0, 1} \cup ((ShowLimit - 1)..MaxPageSize),
      pattern \in Patterns, more \in {0, MaxPageSize} }

NextPage ==
  \/ ExecSetProfile
  \/ \E z \in {NoZip, GoodZip, BadZip} :
       /\ exec.searches < MaxPageCalls
       /\ ExecCall([name |-> "search_trials",
                    args |-> [NoArgs EXCEPT !.zipCode = z]])
  \/ \E up \in ScriOutcomes, searchData \in Pages : ExecPageDone(up, searchData)

SpecPage == Init /\ [][NextPage]_vars

(***************************************************************************)
(* SpecFormat: get_trial_treatment_info formats the interventions of the   *)
(* study the registry returned.                                            *)
(***************************************************************************)

\* formatTreatmentInfo: the text for a study without interventions
NotAvailable ==
  << "T", "r", "e", "a", "t", "m", "e", "n", "t", " ", "i", "n", "f", "o",
     "r", "m", "a", "t", "i", "o", "n", " ", "n", "o", "t", " ", "a", "v",
     "a", "i", "l", "a", "b", "l", "e", "." >>

\* formatTreatmentInfo: parts[0]
StudyTreatments ==
  << "*", "*", "S", "t", "u", "d", "y", " ", "T", "r", "e", "a", "t", "m",
     "e", "n", "t", "s", ":", "*", "*" >>

DescriptionLimit == 200

\* variant: the description is emitted whole
Substring_whole(str, start, end) == str

\* String.prototype.substring(start, end), 0 <= start <= end
Substring(str, start, end) ==
  SubSeq(str, start + 1, IF end < Len(str) THEN end ELSE Len(str))

\* formatTreatmentInfo: the line of the i-th intervention before its
\* description
LineHead(intervention, i) ==
  <<Digit(i), ".", " ", "*", "*">> \o intervention.name
    \o <<"*", "*", " ", "(">> \o intervention.type \o <<")">>

\* formatTreatmentInfo: the callback of forEach (i counts from 1 here); a
\* description that is absent or empty adds nothing
TreatmentLine(intervention, i) ==
  LET description == intervention.description
  IN IF description # <<>>
     THEN LineHead(intervention, i) \o <<":", " ">>
            \o Substring(description, 0, DescriptionLimit)
            \o (IF Len(description) > DescriptionLimit
                THEN <<".", ".", ".">> ELSE <<>>)
     ELSE LineHead(intervention, i)

\* formatTreatmentInfo(study); interventions <<>>: absent or empty
FormatTreatmentInfo(study) ==
  IF study.interventions = <<>> THEN NotAvailable
  ELSE Join(<<StudyTreatments>>
              \o [i \in 1..Len(study.interventions) |->
                    TreatmentLine(study.interventions[i], i)])

\* the lengths of the descriptions the registry may hold
DescriptionLengths ==
  {0, 1} \cup ((DescriptionLimit - 1)..MaxDescription)

\* the interventions of a registry study
Interventions ==
  { [name |-> <<"X">>, type |-> <<"D", "R", "U", "G">>,
     description |-> [n \in 1..len |-> IF n = len THEN "z" ELSE "d"]] :
      len \in DescriptionLengths }

\* CTGovStudy, as far as formatTreatmentInfo reads it
Studies ==
  { [interventions |-> list] : list \in SeqsUpTo(Interventions, MaxInterventions) }

\* get_trial_treatment_info: fetchCTGovStudy returns `study`
ExecTreatmentDone(study) ==
  /\ exec.pc = "awaitStudy"
  /\ exec.name = "get_trial_treatment_info"
  /\ exec' = [ExecResolved(exec,
                           [StudyInfo EXCEPT
                              !.treatmentInfo = FormatTreatmentInfo(study)],
                           "ok")
                EXCEPT !.data = study.interventions]
  /\ UNCHANGED <<trialCache, agentVars>>

NextFormat ==
  \/ ExecSetProfile
  \/ \E id \in NctIds :
       ExecCall([name |-> "get_trial_treatment_info",
                 args |-> [NoArgs EXCEPT !.nctId = id]])
  \/ \E study \in Studies : ExecTreatmentDone(study)
  \/ \E up \in StudyOutcomes \ {"ok"} : ExecStudyDone(up)

SpecFormat == Init /\ [][NextFormat]_vars

(***************************************************************************)
(* SpecCLI: chat() of the command-line agents (CLITrialAgent, TestAgent,   *)
(* QualityTrialAgent, QualityTestAgent), which share one loop.             *)
(***************************************************************************)

CliAgents ==
  {"CLITrialAgent", "TestAgent", "QualityTrialAgent", "QualityTestAgent"}

\* chat: condition of the while loop (response.output is set)
CliLoopContinues(resp) == resp.status = "completed"

\* agent.chat(text), up to the first responses.create
CliChat(a) ==
  /\ h[Caller].pc = "idle"
  /\ turnsDone < MaxTurns
  /\ h' = [h EXCEPT ![Caller] =
                [Blank EXCEPT !.type = a, !.pc = "awaitModel", !.inst = 1]]
  /\ turnsDone' = turnsDone + 1
  /\ UNCHANGED <<agent, insts, token, profile, storedKey, embeddedKey,
                 storedProfile, slot, nextId, arrived>>
  /\ UNCHANGED toolVars

\* responses.create resolves: previousResponseId is set, and the loop is
\* entered again or left (loopCount: the iterations begun so far)
CliModelReturn(st, cs) ==
  /\ h[Caller].type \in CliAgents
  /\ h[Caller].pc = "awaitModel"
  /\ nextId < FirstId + MaxCliResponses
  /\ LET resp == NewResponse(st, cs)
         r == [h[Caller] EXCEPT !.resp = resp, !.modelCalls = @ + 1]
     IN /\ token' = [token EXCEPT ![1] = resp.id]
        /\ h' = [h EXCEPT ![Caller] =
                   IF CliLoopContinues(resp) /\ FunctionCalls(resp) # <<>>
                   THEN [r EXCEPT !.pc = "tools", !.loopCount = @ + 1]
                   ELSE [r EXCEPT !.pc = "idle", !.outcome = "resolved"]]
  /\ nextId' = nextId + 1
  /\ UNCHANGED <<agent, insts, profile, storedKey, embeddedKey, storedProfile,
                 slot, arrived, turnsDone>>
  /\ UNCHANGED toolVars

\* responses.create rejects: chat rejects
CliModelThrow ==
  /\ h[Caller].type \in CliAgents
  /\ h[Caller].pc = "awaitModel"
  /\ h' = [h EXCEPT ![Caller] =
                [h[Caller] EXCEPT !.pc = "idle", !.outcome = "rejected"]]
  /\ UNCHANGED <<agent, insts, token, profile, storedKey, embeddedKey,
                 storedProfile, slot, nextId, arrived, turnsDone>>
  /\ UNCHANGED toolVars

\* the for loop over the function calls ends (each call returned or its
\* error was caught) and the results are sent with the next responses.create
CliToolsDone ==
  /\ h[Caller].type \in CliAgents
  /\ h[Caller].pc = "tools"
  /\ h' = [h EXCEPT ![Caller] = [h[Caller] EXCEPT !.pc = "awaitModel"]]
  /\ UNCHANGED <<agent, insts, token, profile, storedKey, embeddedKey,
                 storedProfile, slot, nextId, arrived, turnsDone>>
  /\ UNCHANGED toolVars

NextCLI ==
  \/ \E a \in CliAgents : CliChat(a)
  \/ \E st \in Statuses, cs \in CallBatches : CliModelReturn(st, cs)
  \/ CliModelThrow
  \/ CliToolsDone

SpecCLI == Init /\ [][NextCLI]_vars

\* ------------------------------------------------------------- properties

\* C1: when chat() has resolved, previousResponseId is the id of the last
\* response received in the turn and is not the id of any earlier response of
\* the turn whose tool calls were executed and answered.
TokenIsFinalResponse ==
  \A i \in Handlers :
    (h[i].type = "API" /\ h[i].outcome = "resolved") =>
      /\ token[h[i].inst] = h[i].resp.id
      /\ token[h[i].inst] \notin h[i].answered

\* a turn with at least two tool sub-turns has resolved
TokenIsFinalResponse_witness ==
  \E i \in Handlers :
    /\ h[i].type = "API" /\ h[i].outcome = "resolved"
    /\ Cardinality(h[i].answered) >= 2

\* C2: the continuation request that follows a processed response carries
\* exactly one function_call_output per function call of that response, with
\* the same call_id, in the same order, whatever happened to each call.
OutputsMatchCalls ==
  \A i \in Handlers :
    (h[i].pc = "awaitModel" /\ h[i].req.kind = "continuation") =>
      /\ Len(h[i].req.pairs) = Len(FunctionCalls(h[i].resp))
      /\ \A n \in 1..Len(h[i].req.pairs) :
           h[i].req.pairs[n].call_id = FunctionCalls(h[i].resp)[n].call_id

\* a batch with an unparsable call and a call that threw or succeeded was answered
OutputsMatchCalls_witness ==
  \E i \in Handlers :
    /\ h[i].pc = "awaitModel" /\ h[i].req.kind = "continuation"
    /\ Len(h[i].req.pairs) = 2
    /\ ~FunctionCalls(h[i].resp)[1].argsOk
    /\ FunctionCalls(h[i].resp)[2].name \in KnownTools
    /\ FunctionCalls(h[i].resp)[2].argsOk

\* C3 (as claimed): when chat() has resolved, the last response received has
\* no function call left without a submitted output.
NoUnansweredCallAtResolve ==
  \A i \in Handlers :
    (h[i].type = "API" /\ h[i].outcome = "resolved") =>
      FunctionCalls(h[i].resp) = <<>>

\* C4: chat() rejects only in a step in which a model call itself failed; a
\* failing tool call is followed by the next call of the batch or, after the
\* last one, by the continuation request.
ToolFailureIsLocal ==
  [][\A i \in Handlers :
       /\ (h'[i].outcome = "rejected" /\ h[i].outcome # "rejected") =>
            (h[i].pc = "awaitModel" /\ nextId' = nextId)
       /\ (h[i].pc = "awaitTool" /\ h'[i] # h[i]) =>
            \/ /\ h'[i].pc = "awaitTool"
               /\ h'[i].k > h[i].k
               /\ h'[i].resp = h[i].resp
               /\ Len(h'[i].toolResults) = h'[i].k - 1
            \/ /\ h'[i].pc = "awaitModel"
               /\ h'[i].req.kind = "continuation"
               /\ h'[i].req.prev = h[i].resp.id]_vars

\* the turn went on after an unknown tool: the rest of the batch was executed
ToolFailureIsLocal_witness ==
  \E i \in Handlers :
    /\ h[i].pc = "awaitModel" /\ h[i].req.kind = "continuation"
    /\ Len(h[i].req.pairs) = 2
    /\ FunctionCalls(h[i].resp)[1].name \notin KnownTools
    /\ h[i].req.pairs[1].output.error
    /\ ~h[i].req.pairs[2].output.error

\* C5: a turn issues at most maxLoops + 1 model calls and executes at most
\* maxLoops tool batches, and the response to call maxLoops + 1 resolves it.
TurnIsBounded ==
  /\ [](\A i \in Handlers :
          h[i].modelCalls <= maxLoops + 1 /\ h[i].batches <= maxLoops)
  /\ [][\A i \in Handlers :
          (h[i].pc = "awaitModel" /\ h[i].modelCalls = maxLoops + 1
             /\ nextId' # nextId /\ h'[i] # h[i]) =>
            h'[i].outcome = "resolved"]_vars

\* a turn in which every response asked for tools has resolved
TurnIsBounded_witness ==
  \E i \in Handlers :
    /\ h[i].outcome = "resolved"
    /\ h[i].modelCalls = maxLoops + 1 /\ h[i].batches = maxLoops
    /\ FunctionCalls(h[i].resp) # <<>>

\* C6: the first model call of a turn carries the token held at turn start
\* with the raw text as input, and no token with a structured input exactly
\* when none is held.
FirstCallCarriesToken ==
  \A i \in Handlers :
    (h[i].type = "API" /\ h[i].pc = "awaitModel" /\ h[i].req.kind = "initial") =>
      /\ h[i].req.prev = token[h[i].inst]
      /\ h[i].req.input =
           IF token[h[i].inst] # NoToken THEN "text" ELSE "structured"

\* the first turn of an instance that was restored with a saved token
FirstCallCarriesToken_witness ==
  \E i \in Handlers :
    /\ h[i].type = "API" /\ h[i].pc = "awaitModel" /\ h[i].req.kind = "initial"
    /\ turnsDone = 1
    /\ h[i].req.prev = StoredToken /\ h[i].req.input = "text"

\* C7: resetConversation() leaves the instance without a token, whatever it
\* held before, and a RESET_CONVERSATION handler that completes leaves the
\* persisted slot empty.
ResetClearsTokenAndSlot ==
  [][\A i \in Handlers :
       /\ (h[i].pc # "removing" /\ h'[i].pc = "removing") =>
            GetConversationState(token', h'[i].inst) =
              [previousResponseId |-> NoToken, hasActiveConversation |-> FALSE]
       /\ (h[i].pc = "removing" /\ h'[i].pc = "done") => slot' = NoToken]_vars

\* a reset of a token left by a completed turn has completed
ResetClearsTokenAndSlot_witness ==
  \E i \in Handlers :
    /\ h[i].type = "RESET_CONVERSATION" /\ h[i].pc = "done"
    /\ h[i].tokBefore >= FirstId
    /\ agent # 0 /\ token[agent] = NoToken /\ slot = NoToken

\* C8 (as claimed): a CHAT handler returns the response of a resolved turn
\* only in the step that completes the write of the turn's final response id
\* to the persisted slot.
ChatWritesFinalId ==
  [][\A i \in Handlers :
       (h[i].type = "CHAT" /\ h[i].pc # "done" /\ h'[i].pc = "done") =>
         (h[i].pc = "saving" /\ slot' = h[i].resp.id)]_vars

\* C9 (as claimed): no turn starts without a token on an instance whose
\* restore from a non-empty slot has not completed.
RestoredBeforeFirstTurn ==
  \A i \in Handlers :
    (h[i].type = "CHAT" /\ h[i].pc = "awaitModel" /\ h[i].req.kind = "initial"
       /\ h[i].req.prev = NoToken) =>
      ~(slot # NoToken /\
        \E j \in Handlers : h[j].pc = "ga_session" /\ h[j].created = h[i].inst)

\* C10 (as claimed): no two CHAT turns are in progress on one instance.
OneTurnPerAgent ==
  \A i, j \in Handlers :
    (i # j /\ h[i].type = "CHAT" /\ h[j].type = "CHAT"
       /\ h[i].pc \in {"awaitModel", "awaitTool"}
       /\ h[j].pc \in {"awaitModel", "awaitTool"}) =>
      h[i].inst # h[j].inst

UpstreamFailureIsErrorTagged ==
  (exec.pc = "idle" /\ exec.name # "none" /\ Failed(exec.up)) =>
    CallOutput(exec).error

\* the records of the searches served so far that are in the cache under their id
Cached == { R \in exec.searched : MapGet(trialCache, R.studyId).trial = R }

KeysUnshared(R) ==
  \A R2 \in exec.searched \ {R} :
    /\ R2.studyId # R.studyId
    /\ ToUpperCase(R2.studyName) # ToUpperCase(R.studyName)
    /\ R2.studyId # ToUpperCase(R.studyName)
    /\ ToUpperCase(R2.studyName) # R.studyId

KeyMatches(key, q) ==
  \/ key = q
  \/ Includes(key, ToUpperCase(q))
  \/ Includes(ToUpperCase(q), key)

OnlyKeysOf(R, q) ==
  \A n \in 1..Len(trialCache) :
    trialCache[n].trial # R => ~KeyMatches(trialCache[n].key, q)

SortedByDistance ==
  (exec.pc = "idle" /\ exec.name = "search_trials" /\ ~exec.threw
     /\ ZipResolves(exec.args.zipCode)) =>
    \A m, n \in 1..Len(exec.result.trials) :
      m < n =>
        LET a == exec.result.trials[m].distance
            b == exec.result.trials[n].distance
        IN /\ (a # None /\ b # None) => a <= b
           /\ a = None => b = None

StudyTools == {"get_trial_eligibility", "get_trial_treatment_info"}

\* C16: get_trial_eligibility and get_trial_treatment_info never throw, and
\* when the registry lookup yields no record (non-OK status, network
\* exception, a response without protocol section, or no request at all) they
\* resolve to an error payload.
StudyLookupNeverThrows ==
  (exec.pc = "idle" /\ exec.name \in StudyTools) =>
    /\ ~exec.threw
    /\ exec.up # "ok" => exec.result = StudyError

\* both tools met a failed lookup
StudyLookupNeverThrows_witness ==
  /\ exec.pc = "idle" /\ exec.name \in StudyTools
  /\ exec.up \in {"network", "status", "noProtocol"}
  /\ exec.result.error

TrialsOfThisTurn ==
  [][LET r == h[Caller]
         r2 == h'[Caller]
     IN /\ (r.pc = "idle" /\ r2.pc # "idle") => r2.allTrials = <<>>
        /\ (r.pc = "awaitTool" /\ r2 # r) =>
             LET call == FunctionCalls(r.resp)[r.k]
                 out == r2.toolResults[r.k].output
             IN /\ out.error => out.trials = <<>>
                /\ r2.allTrials =
                     r.allTrials \o (IF call.name = "search_trials"
                                     THEN out.trials ELSE <<>>)
        /\ (r.pc = "awaitModel" /\ r2.pc \in {"awaitModel", "awaitTool"}) =>
             r2.allTrials = r.allTrials
        /\ (r.pc = "awaitModel" /\ r2.pc = "idle" /\ r2.outcome = "resolved") =>
             /\ r2.ret.hasTrials = (r.allTrials # <<>>)
             /\ r2.ret.trials = r.allTrials]_vars

\* a resolved turn returns the lists of two searches made in two sub-turns,
\* in the order of the searches
TrialsOfThisTurn_witness ==
  /\ h[Caller].pc = "idle" /\ h[Caller].outcome = "resolved"
  /\ h[Caller].ret.hasTrials
  /\ h[Caller].ret.trials = << Slim(<<"y">>), Slim(<<"z">>), Slim(<<"x">>) >>

\* the text segments of the first message item of a response
FinalSegments(resp) ==
  LET m == { n \in 1..Len(resp.output) : resp.output[n].type = "message" }
      first == CHOOSE n \in m : \A o \in m : n <= o
      c == resp.output[first].content
      t == { n \in 1..Len(c) : c[n].type = "output_text" }
  IN IF m = {} THEN <<>>
     ELSE [n \in 1..Cardinality(t) |->
             c[CHOOSE o \in t : Cardinality({ q \in t : q <= o }) = n].text]

\* C19 (chat, SpecTurn): a resolved chat() returns a non-empty text: the
\* apology when the final response has no message item, no text segment or
\* only empty text, else the segments of its message joined by newlines.
TextOrApology ==
  (h[Caller].pc = "idle" /\ h[Caller].outcome = "resolved") =>
    LET segs == FinalSegments(h[Caller].resp)
    IN /\ h[Caller].ret.text # <<>>
       /\ h[Caller].ret.text =
            IF \A n \in 1..Len(segs) : segs[n] = <<>>
            THEN Apology ELSE Join(segs)

\* C20 (chat, SpecTurn): after a resolved chat() the token of the agent
\* differs from the token it held when the call was made.
TokenAdvances ==
  (h[Caller].pc = "idle" /\ h[Caller].outcome = "resolved") =>
    token[h[Caller].inst] # h[Caller].tokBefore

\* the second of two resolved turns: it began with the token the first left
TokenAdvances_witness ==
  /\ h[Caller].pc = "idle" /\ h[Caller].outcome = "resolved"
  /\ turnsDone = 2
  /\ h[Caller].tokBefore >= FirstId
  /\ token[h[Caller].inst] > h[Caller].tokBefore

\* C21 (executeTool, SpecTools): every tool name the repository's callers
\* pass to executeTool is handled: unless the data source fails, the call
\* returns a result and the worker's handler is not answered with ERROR.
CallerToolsHandled ==
  (exec.pc = "idle" /\ exec.name \in CallerTools /\ exec.up \in {"none", "ok"}) =>
    (~exec.threw /\ ListenerAnswer(exec) # "ERROR")

\* C22 (chat, Spec): a continuation call carries as previous_response_id
\* the id of the response whose calls its outputs answer (the latest of the
\* turn), never the token that started the turn nor the id of an older
\* response of the turn, and it carries the system instructions and the
\* tool schemas as the first call does.
ContinuationChains ==
  LET r == h[Caller]
  IN (r.pc = "awaitModel" /\ r.req.kind = "continuation") =>
       /\ r.req.prev = r.resp.id
       /\ \A n \in 1..Len(r.req.pairs) : r.req.pairs[n].call_id[1] = r.req.prev
       /\ r.req.prev # r.tokBefore
       /\ \A id \in r.answered : id <= r.req.prev
       /\ r.req.instructions = SystemPrompt(profile[r.inst])
       /\ r.req.tools = AGENT_TOOLS

\* the second continuation call of a turn that started from a restored token
ContinuationChains_witness ==
  /\ h[Caller].pc = "awaitModel" /\ h[Caller].req.kind = "continuation"
  /\ h[Caller].tokBefore = StoredToken
  /\ Cardinality(h[Caller].answered) = 2
  /\ h[Caller].req.pairs # <<>>

\* C23 (chat, SpecBatch): the calls of one response are executed one at a
\* time in the order received: when the call at position k is being
\* executed, the calls before it have their outputs, in order; so a
\* get_study_details call finds in the cache the records that a
\* search_trials call placed before it in the batch has returned.
SequentialBatch ==
  LET r == h[Caller]
      calls == FunctionCalls(r.resp)
  IN r.pc = "awaitTool" =>
       /\ Len(r.toolResults) = r.k - 1
       /\ \A n \in 1..(r.k - 1) : r.toolResults[n].call_id = calls[n].call_id
       /\ exec.name # "none" =>
            (exec.name = calls[r.k].name /\ exec.args = calls[r.k].args)
       /\ (exec.pc = "idle" /\ exec.name = "get_study_details") =>
            \A j \in 1..(r.k - 1) :
              \A n \in 1..Len(r.toolResults[j].output.trials) :
                LET t == r.toolResults[j].output.trials[n]
                    q == exec.args.studyId
                IN (calls[j].name = "search_trials" /\
                    (t.id = q \/ ToUpperCase(t.name) = ToUpperCase(q))) =>
                     /\ ~exec.threw
                     /\ exec.result.found = TRUE
                     /\ exec.result.source = "cache"
                     /\ t.id = q => exec.result.trial.id = q

\* a lookup by id that follows, in one batch, a search that returned the id
SequentialBatch_witness ==
  /\ h[Caller].pc = "awaitTool" /\ h[Caller].k = 2
  /\ exec.pc = "idle" /\ exec.name = "get_study_details"
  /\ FunctionCalls(h[Caller].resp)[1].name = "search_trials"
  /\ Len(h[Caller].toolResults) = 1
  /\ \E n \in 1..Len(h[Caller].toolResults[1].output.trials) :
       h[Caller].toolResults[1].output.trials[n].id = exec.args.studyId
  /\ exec.result.source = "cache"

\* C24 (background, SpecWorker): when RESET_CONVERSATION was handled while a
\* CHAT turn was in flight on the same agent and no CHAT message arrived
\* after it, then, once the handlers have finished, the agent's token and
\* the persisted slot are empty.
ResetSurvivesTurn ==
  \A j \in Handlers :
    ( /\ h[j].type = "RESET_CONVERSATION" /\ h[j].pc = "done" /\ h[j].over # 0
      /\ \A i \in Handlers :
           h[i].type = "CHAT" => (i < j /\ h[i].pc \in {"done", "error"}) ) =>
      (token[h[j].over] = NoToken /\ slot = NoToken)

\* C25 (background, SpecWorker): between two SET_API_KEY messages at most
\* one TrialAgent is created, and every handler that has obtained an
\* instance from getAgent works on the one the variable `agent` holds.
OneAgentPerKey ==
  /\ insts <= 1 + Cardinality({ i \in Handlers :
                                  h[i].type = "SET_API_KEY" /\ h[i].pc = "done" })
  /\ \A i \in Handlers :
       (h[i].pc \in {"awaitModel", "awaitTool", "removing"}) => h[i].inst = agent

\* C26 (chat / background, SpecWorker): when a model call of a CHAT turn
\* fails, the first one or a continuation, the handler is answered with an
\* error and that step changes neither the agent's token nor the persisted
\* slot; no earlier step of the turn has changed them either, so the token
\* is the one held before the call.
FailedTurnLeavesToken ==
  [][\A i \in Handlers :
       /\ ( /\ h[i].type = "CHAT" /\ h[i].pc = "awaitModel"
            /\ h'[i].pc \notin {"awaitModel", "awaitTool"}
            /\ nextId' = nextId ) =>
            (h'[i].pc = "error" /\ token' = token /\ slot' = slot)
       /\ ( /\ h[i].type = "CHAT" /\ h[i].pc \in {"awaitModel", "awaitTool"}
            /\ h'[i] # h[i] /\ h'[i].pc \in {"awaitModel", "awaitTool"} ) =>
            (token' = token /\ slot' = slot)]_vars

\* the only message was a CHAT, its first model call returned tool calls and
\* the continuation call failed
FailedTurnLeavesToken_witness ==
  /\ arrived = 1 /\ insts = 1 /\ nextId = FirstId + 1
  /\ h[1].type = "CHAT" /\ h[1].pc = "error"
  /\ token[1] = slot

\* some key of the cache matches the query
Resolvable(q) ==
  \E n \in 1..Len(trialCache) : KeyMatches(trialCache[n].key, q)

\* C27 (executeTool, SpecTools): get_study_details consults the cache
\* first: a detail fetch is in flight, or has been made, only for a key the
\* cache does not resolve; for a key it resolves the call made no upstream
\* request and its result has source 'cache'.
CacheBeforeUpstream ==
  exec.name = "get_study_details" =>
    /\ exec.pc = "awaitDetails" => ~Resolvable(exec.args.studyId)
    /\ (exec.pc = "idle" /\ exec.up # "none") => ~Resolvable(exec.args.studyId)
    /\ (exec.pc = "idle" /\ Resolvable(exec.args.studyId)) =>
         /\ exec.up = "none"
         /\ ~exec.threw
         /\ exec.result.found = TRUE
         /\ exec.result.source = "cache"

\* a part of a cached name was looked up and answered from the cache
CacheBeforeUpstream_witness ==
  /\ exec.pc = "idle" /\ exec.name = "get_study_details"
  /\ Resolvable(exec.args.studyId)
  /\ MapGet(trialCache, exec.args.studyId) = NoEntry
  /\ MapGet(trialCache, ToUpperCase(exec.args.studyId)) = NoEntry
  /\ exec.up = "none" /\ exec.result.source = "cache"

\* the keys a record is cached under
KeysOf(R) ==
  {R.studyId} \cup (IF R.studyName # <<>> THEN {ToUpperCase(R.studyName)} ELSE {})

AllKeys == UNION { KeysOf(R) : R \in TrialPool }

\* C28 (cacheTrials / get_study_details, SpecTools): for each key the cache
\* holds what the most recent search that returned a record under the key
\* wrote: a search that is served a page leaves under every key of the page
\* the (last) record of the page with that key and the postal code of this
\* search, and leaves every other key as it was; no other step writes the
\* cache; and get_study_details of a key projects the entry's record with
\* the entry's postal code.
LatestSearchWins ==
  /\ [][IF exec.pc = "awaitSearch" /\ exec'.pc = "idle" /\ ~exec'.threw
        THEN \A K \in AllKeys :
               LET D == exec'.data
                   hits == { n \in 1..Len(D) : K \in KeysOf(D[n]) }
               IN IF hits = {}
                  THEN MapGet(trialCache', K) = MapGet(trialCache, K)
                  ELSE MapGet(trialCache', K) =
                         [key |-> K,
                          trial |-> D[CHOOSE n \in hits : \A m \in hits : m <= n],
                          userZipCode |-> exec.args.zipCode]
        ELSE trialCache' = trialCache]_vars
  /\ []((exec.pc = "idle" /\ exec.name = "get_study_details"
          /\ MapGet(trialCache, exec.args.studyId) # NoEntry) =>
         LET entry == MapGet(trialCache, exec.args.studyId)
         IN /\ ~exec.threw
            /\ exec.result.source = "cache"
            /\ exec.result.trial =
                 ToTrialSummary(entry.trial, entry.userZipCode))

\* a search with a ZIP code has returned one record that an earlier search
\* without a ZIP code had cached: its entry, still the first, has the ZIP
LatestSearchWins_witness ==
  /\ exec.pc = "idle" /\ exec.name = "search_trials" /\ ~exec.threw
  /\ exec.searches = 2 /\ Len(exec.data) = 1
  /\ exec.args.zipCode = GoodZip
  /\ Len(trialCache) >= 3
  /\ trialCache[1].key = exec.data[1].studyId
  /\ trialCache[1].userZipCode = GoodZip
  /\ trialCache[3].userZipCode = NoZip

\* C29 (search_trials, SpecTools): a search caches every record of its page
\* under its id and its upper-cased name, tagged with the zipCode argument
\* when there is one and with the postal code of the patient profile
\* otherwise.
CachedUnderSearchZip ==
  (exec.pc = "idle" /\ exec.name = "search_trials" /\ ~exec.threw) =>
    \A n \in 1..Len(exec.data) :
      \A K \in KeysOf(exec.data[n]) :
        /\ MapGet(trialCache, K) # NoEntry
        /\ MapGet(trialCache, K).userZipCode =
             IF exec.args.zipCode # NoZip THEN exec.args.zipCode
             ELSE ProfileZip(profile[1])

\* the least of a non-empty set of positions
First(positions) == CHOOSE n \in positions : \A m \in positions : n <= m

\* C30 (getCachedTrial, SpecTools): the lookup of a query returns the entry
\* whose key is the query; failing that, the entry whose key is the
\* upper-cased query; failing that, the earliest-inserted entry whose key
\* contains the upper-cased query or is contained in it; and nothing when
\* there is none.
LookupPriority ==
  \A q \in Queries :
    LET U == ToUpperCase(q)
        at == 1..Len(trialCache)
        exact == { n \in at : trialCache[n].key = q }
        upper == { n \in at : trialCache[n].key = U }
        part == { n \in at : \/ Includes(trialCache[n].key, U)
                             \/ Includes(U, trialCache[n].key) }
        found == GetCachedTrial(trialCache, q)
    IN CASE exact # {} -> found = trialCache[First(exact)]
         [] exact = {} /\ upper # {} -> found = trialCache[First(upper)]
         [] exact = {} /\ upper = {} /\ part # {} ->
              found = trialCache[First(part)]
         [] OTHER -> found = NoEntry

\* the query is the key of one record while an earlier key, holding another
\* record, contains it: the lookup returns the entry of the exact key
LookupPriority_witness ==
  \E q \in Queries, n, m \in 1..Len(trialCache) :
    /\ m < n
    /\ trialCache[n].key = q
    /\ trialCache[m].key # q /\ Includes(trialCache[m].key, ToUpperCase(q))
    /\ trialCache[m].trial # trialCache[n].trial
    /\ GetCachedTrial(trialCache, q) = trialCache[n]


\* C31: resetConversation() changes only the continuation token: a step that
\* clears the token leaves the trial cache and the patient profile as they
\* were, and a get_study_details call made after a reset for a trial that
\* was in the cache when the reset ran is answered from the cache.
ResetKeepsCache ==
  /\ [][ (token[1] # NoToken /\ token'[1] = NoToken)
           => /\ trialCache' = trialCache
              /\ profile' = profile
              /\ exec' = exec ]_vars
  /\ [](( /\ exec.name = "get_study_details"
          /\ exec.pc = "idle"
          /\ GetCachedTrial(h[Caller].cacheAtReset, exec.args.studyId) # NoEntry )
        => ( /\ ~exec.threw
             /\ exec.result.kind = "details"
             /\ exec.result.source = "cache" ))

ResetKeepsCache_witness ==
  /\ token[1] = NoToken
  /\ h[Caller].tokBefore = StoredToken
  /\ h[Caller].cacheAtReset # <<>>
  /\ h[Caller].cacheAtReset = trialCache
  /\ exec.name = "get_study_details"
  /\ exec.pc = "idle"
  /\ GetCachedTrial(h[Caller].cacheAtReset, exec.args.studyId) # NoEntry
  /\ exec.result.source = "cache"


\* C32: searchCTGov sends at most two requests per call; a second request is
\* sent only when the first carried a non-empty location filter and was
\* answered with status 400, and it carries no geographic filter; a call
\* whose last request failed resolves with an empty list and never throws.
AtMostOneRetry ==
  exec.name = "search_all_trials" =>
    /\ Len(exec.requests) \in {1, 2}
    /\ exec.requests[1].geo = Trim(exec.args.location)
    /\ Len(exec.requests) = 2 =>
         /\ exec.requests[1].geo # <<>>
         /\ exec.requests[1].status = "status400"
         /\ exec.requests[2].geo = <<>>
    /\ exec.pc = "idle" =>
         /\ ~exec.threw
         /\ exec.result.kind = "backstop"
         /\ exec.requests[Len(exec.requests)].status = exec.up
         /\ Failed(exec.up) => exec.result.totalFound = 0
         /\ (Len(exec.requests) = 1 /\ exec.up = "status400") =>
              exec.requests[1].geo = <<>>

AtMostOneRetry_witness ==
  /\ exec.name = "search_all_trials"
  /\ exec.pc = "idle"
  /\ Len(exec.requests) = 2
  /\ exec.up = "status400"
  /\ exec.result.totalFound = 0


\* the identifier, trimmed and uppercased, starts with "NCT"
CleanPrefixNCT(id) ==
  LET clean == ToUpperCase(Trim(id))
  IN Len(clean) >= 3 /\ SubSeq(clean, 1, 3) = <<"N", "C", "T">>

\* C33: for an identifier that, trimmed and uppercased, does not start with
\* "NCT", fetchCTGovStudy sends no request and returns null: the eligibility
\* and treatment tools never wait for the registry and resolve with an
\* error payload.
NoRequestWithoutNCT ==
  ( /\ exec.name \in {"get_trial_eligibility", "get_trial_treatment_info"}
    /\ ~CleanPrefixNCT(exec.args.nctId) )
  => /\ exec.pc = "idle"
     /\ exec.up = "none"
     /\ ~exec.threw
     /\ exec.result = StudyError

NoRequestWithoutNCT_witness ==
  /\ exec.name = "get_trial_treatment_info"
  /\ exec.args.nctId = <<"1">>
  /\ exec.pc = "idle"
  /\ exec.result = StudyError


\* the distances of the trial's locations that have coordinates
Distances(trial) ==
  LET locations == IF Len(trial.officeList) > 0 THEN trial.officeList
                   ELSE trial.siteList
  IN { locations[n] : n \in 1..Len(locations) } \ {NoCoord}

\* C34: a summary projected from the cache with a resolvable postal code
\* names as closest location one whose distance is minimal among the
\* trial's locations with coordinates, 0 miles included, and it is the
\* distance the slim search result gives for the same trial and postal code.
ClosestIsNearest ==
  ( /\ exec.name = "get_study_details"
    /\ exec.pc = "idle"
    /\ exec.result.source = "cache" )
  => LET entry == GetCachedTrial(trialCache, exec.args.studyId)
     IN ( /\ entry.userZipCode # NoZip
          /\ ZipResolves(entry.userZipCode)
          /\ Distances(entry.trial) # {} )
        => /\ exec.result.trial.closest \in Distances(entry.trial)
           /\ \A d \in Distances(entry.trial) : exec.result.trial.closest <= d
           /\ exec.result.trial.closest =
                SlimResult(entry.trial, TRUE).distance


\* C35: search_trials returns at most 20 trials whatever the length of the
\* page it was served, with or without a postal code; showing is the number
\* of trials returned and totalFound the total count of the source; an
\* empty page gives an empty list with that count and no error.
AtMostTwentyShown ==
  ( /\ exec.name = "search_trials"
    /\ exec.pc = "idle"
    /\ exec.up = "ok" )
  => /\ ~exec.threw
     /\ exec.result.kind = "search"
     /\ ~exec.result.error
     /\ Len(exec.result.trials) <= 20
     /\ Len(exec.result.trials) <= Len(exec.data)
     /\ exec.result.showing = Len(exec.result.trials)
     /\ exec.result.totalFound = exec.total
     /\ exec.data = <<>> => exec.result.trials = <<>>

AtMostTwentyShown_witness ==
  /\ exec.name = "search_trials"
  /\ exec.pc = "idle"
  /\ exec.up = "ok"
  /\ exec.args.zipCode = GoodZip
  /\ Len(exec.data) > 20
  /\ exec.total > Len(exec.data)
  /\ exec.result.showing = 20
  /\ \E n \in 1..20 : exec.result.trials[n].distance = None


\* the positions of the line breaks of a text, and its two ends
Breaks(text) ==
  { n \in 1..Len(text) : text[n] = "\n" } \cup {0, Len(text) + 1}

\* the k-th line of a text
Line(text, k) ==
  LET B == Breaks(text)
      from == CHOOSE b \in B : Cardinality({ c \in B : c < b }) = k - 1
      to == CHOOSE b \in B : Cardinality({ c \in B : c < b }) = k
  IN SubSeq(text, from + 1, to - 1)

\* the description emitted on the line of the n-th intervention
Emitted(n) ==
  LET line == Line(exec.result.treatmentInfo, n + 1)
      head == LineHead(exec.data[n], n)
  IN SubSeq(line, Len(head) + 3, Len(line))

\* the get_trial_treatment_info call has formatted a study's interventions
Formatted ==
  /\ exec.name = "get_trial_treatment_info"
  /\ exec.pc = "idle"
  /\ exec.up = "ok"
  /\ exec.data # <<>>

\* C36 as stated: the description emitted for an intervention has at most
\* 200 characters.
DescriptionAtMost200 ==
  Formatted =>
    \A n \in 1..Len(exec.data) :
      exec.data[n].description # <<>> => Len(Emitted(n)) <= 200

\* C36: the description emitted for an intervention is the registry's
\* description when that has at most 200 characters, and otherwise its first
\* 200 characters followed by "...", 203 characters in all.
DescriptionCutAt200 ==
  Formatted =>
    /\ Cardinality(Breaks(exec.result.treatmentInfo)) = Len(exec.data) + 2
    /\ Line(exec.result.treatmentInfo, 1) = StudyTreatments
    /\ \A n \in 1..Len(exec.data) :
         LET description == exec.data[n].description
         IN description # <<>> =>
              IF Len(description) <= 200
              THEN Emitted(n) = description
              ELSE /\ SubSeq(Emitted(n), 1, 200) = SubSeq(description, 1, 200)
                   /\ SubSeq(Emitted(n), 201, Len(Emitted(n)))
                        = <<".", ".", ".">>

DescriptionCutAt200_witness ==
  /\ Formatted
  /\ \E n \in 1..Len(exec.data) :
       /\ Len(exec.data[n].description) > 200
       /\ Len(Emitted(n)) = 203


\* C37: the tool loop of a command-line agent begins at most maxLoops
\* iterations in one chat() call, as the loop of TrialAgent does, however
\* many responses request tools.
CliLoopBounded ==
  h[Caller].type \in CliAgents => h[Caller].loopCount <= maxLoops

====
